---- MODULE Spec2Model ----
(***************************************************************************)
(* State + Memento demonstrations of design-patterns-scratch-pad.          *)
(*                                                                         *)
(* Memento: Editor (originator), EditorState (snapshot), EditorHistory     *)
(* (caretaker), driven by an arbitrary caller or by                        *)
(* MementoTestImplementation.runImpl.                                      *)
(* State: Canvas (context) and the tools EraserTool / SelectionTool,       *)
(* driven by an arbitrary caller or by StateTestImplementation.runImpl.    *)
(*                                                                         *)
(* Every method is an operator from the object store to the object store;  *)
(* the store carries the method's return value (ret) and the error it      *)
(* threw (err, "none" when it returned normally).                          *)
(***************************************************************************)
EXTENDS Integers, Sequences, FiniteSets, TLC

\* ---------------------------------------------------------------- bounds
MaxSnapshots == 2      \* EditorState objects the free caller creates
MaxPush == 3           \* EditorHistory.push calls the free caller makes
MaxCalls == 3          \* tool handler invocations made by the free caller
MaxInstances == 2      \* instances of each tool class the free caller makes

\* ------------------------------------------------------ JavaScript values
Undefined == [t |-> "undefined"]
Str(s) == [t |-> "string", v |-> s]
Ref(i) == [t |-> "object", v |-> i]
ToolObj(c, i) == [t |-> "object", class |-> c, v |-> i]

Contents == {Str("Hello"), Str("I am"), Str("Muhammad")}
ToolClasses == {"EraserTool", "SelectionTool"}
ToolObjs == {ToolObj(c, i) : c \in ToolClasses, i \in 1..MaxInstances}

Last(s) == s[Len(s)]
Front(s) == SubSeq(s, 1, Len(s) - 1)

VARIABLES
  content,    \* Editor.content
  states,     \* the EditorState objects created so far; Ref(i) is states[i]
  history,    \* EditorHistory.history
  tool,       \* Canvas.tool
  calls,      \* handler invocations received by tool objects, in order
  console,    \* lines written by console.log, each the tuple of its arguments
  ret,        \* value returned by the last call
  err,        \* error thrown by the last call, "none" if it returned
  pcM,        \* line of MementoTestImplementation.runImpl, 0 = free caller
  pcS,        \* line of StateTestImplementation.runImpl, 0 = free caller
  lastOp,     \* history variable: the last call made
  captured,   \* history variable: Editor.content at each createState call
  pushed,     \* history variable: pushes not yet popped, oldest first
  nPush,      \* history variable: number of push calls
  nPop,       \* history variable: number of pop calls on a non-empty history
  popLog,     \* history variable: values returned by the pop calls on a
              \* non-empty history made since the last other call
  expectLog,  \* history variable: most recent unpopped push at each of them
  lastWrite,  \* history variable: the last setContent / restore
  changed,    \* history variable: the last call changed Editor.content
  lastSet     \* history variable: argument of the last setTool

mementoVars == <<content, states, history, pcM, captured, pushed, nPush, nPop,
                 popLog, expectLog, lastWrite, changed>>
stateVars == <<tool, calls, pcS, lastSet>>
vars == <<content, states, history, tool, calls, console, ret, err, pcM, pcS,
          lastOp, captured, pushed, nPush, nPop, popLog, expectLog, lastWrite,
          changed, lastSet>>

Returns(m, v) == [m EXCEPT !.ret = v, !.err = "none"]
Throws(m, e) == [m EXCEPT !.ret = Undefined, !.err = e]

\* ============================================================== Memento
\* The store the memento classes work on.
M == [content |-> content, states |-> states, history |-> history,
      console |-> console, ret |-> ret, err |-> err]

\* ------------------------------------------------------------ EditorState
\* new EditorState(content): an immutable value object holding content.
EditorState_new(m, c) ==
  Returns([m EXCEPT !.states = Append(@, [content |-> c])],
          Ref(Len(m.states) + 1))

\* EditorState.getContent(): the captured value.
EditorState_getContent(m, state) == Returns(m, m.states[state.v].content)

\* ----------------------------------------------------------------- Editor
getContent(m) == Returns(m, m.content)

setContent(m, c) == Returns([m EXCEPT !.content = c], Undefined)

createState_blank(m) == EditorState_new(m, Undefined)
createState_checkpoint(m) ==
  LET m1 == EditorState_new(m, m.content)
  IN  [m1 EXCEPT !.history = Append(@, m1.ret)]
createState(m) == EditorState_new(m, m.content)

restore_lenient(m, state) ==
  IF state = Undefined
    THEN setContent(m, Undefined)
    ELSE setContent(m, EditorState_getContent(m, state).ret)
restore_discard(m, state) ==
  IF state = Undefined
    THEN Throws(m, "TypeError")
    ELSE Returns(m, Undefined)
restore(m, state) ==
  IF state = Undefined
    THEN Throws(m, "TypeError")   \* state.getContent() on undefined
    ELSE setContent(m, EditorState_getContent(m, state).ret)

\* ---------------------------------------------------------- EditorHistory
push_dedup(m, editor) ==
  IF \E i \in 1..Len(m.history) : m.history[i] = editor
    THEN Returns(m, Undefined)
    ELSE Returns([m EXCEPT !.history = Append(@, editor)], Undefined)
push(m, editor) == Returns([m EXCEPT !.history = Append(@, editor)], Undefined)

pop_peek(m) ==
  IF m.history = <<>> THEN Returns(m, Undefined)
                      ELSE Returns(m, Last(m.history))
pop_shift(m) ==
  IF m.history = <<>> THEN Returns(m, Undefined)
                      ELSE Returns([m EXCEPT !.history = Tail(@)],
                                   Head(m.history))
\* Array.prototype.pop: undefined on an empty array, which stays empty.
pop(m) ==
  IF m.history = <<>> THEN Returns(m, Undefined)
                      ELSE Returns([m EXCEPT !.history = Front(@)],
                                   Last(m.history))

\* ------------------------------------------- MementoTestImplementation
\* runImpl, statement by statement: the call made at each line and the line
\* that follows it.  Line 19 is the end of runImpl.
MementoLines == {8, 9, 11, 12, 13, 14, 15, 17, 18}
MementoEnd == 19
runImpl_Memento(l) ==
  CASE l = 8  -> [op |-> "setContent", arg |-> Str("Hello"), next |-> 9]
    [] l = 9  -> [op |-> "save", arg |-> Undefined, next |-> 11]
    [] l = 11 -> [op |-> "setContent", arg |-> Str("I am"), next |-> 12]
    [] l = 12 -> [op |-> "save", arg |-> Undefined, next |-> 13]
    [] l = 13 -> [op |-> "setContent", arg |-> Str("Muhammad"), next |-> 14]
    [] l = 14 -> [op |-> "save", arg |-> Undefined, next |-> 15]
    [] l = 15 -> [op |-> "log", arg |-> Undefined, next |-> 17]
    [] l = 17 -> [op |-> "undo", arg |-> Undefined, next |-> 18]
    [] l = 18 -> [op |-> "log", arg |-> Undefined, next |-> MementoEnd]

\* The caller is free (pcM = 0) or runImpl is at a line making this call.
MementoMay(op, arg) ==
  \/ pcM = 0
  \/ /\ pcM \in MementoLines
     /\ runImpl_Memento(pcM).op = op
     /\ runImpl_Memento(pcM).arg = arg

\* An error thrown inside runImpl ends it.
MementoAdvance(m) ==
  pcM' = IF pcM = 0 THEN 0
         ELSE IF m.err # "none" THEN MementoEnd
         ELSE runImpl_Memento(pcM).next

Commit(m) ==
  /\ content' = m.content
  /\ states' = m.states
  /\ history' = m.history
  /\ console' = m.console
  /\ ret' = m.ret
  /\ err' = m.err
  /\ changed' = (m.content # content)

HeldRefs == {Ref(i) : i \in 1..Len(states)}

\* editor.setContent(c)
SetContent ==
  \E c \in Contents :
    /\ MementoMay("setContent", c)
    /\ LET m == setContent(M, c)
       IN  Commit(m) /\ MementoAdvance(m)
    /\ lastOp' = "setContent"
    /\ lastWrite' = [kind |-> "setContent", value |-> c]
    /\ popLog' = <<>> /\ expectLog' = <<>>
    /\ UNCHANGED <<captured, pushed, nPush, nPop>>
    /\ UNCHANGED stateVars

\* s = editor.createState()
CreateState ==
  /\ pcM = 0
  /\ Len(states) < MaxSnapshots
  /\ LET m == createState(M)
     IN  Commit(m) /\ MementoAdvance(m)
  /\ lastOp' = "createState"
  /\ captured' = Append(captured, content)
  /\ popLog' = <<>> /\ expectLog' = <<>>
  /\ UNCHANGED <<pushed, nPush, nPop, lastWrite>>
  /\ UNCHANGED stateVars

\* editor.restore(s), s a snapshot the caller holds
Restore ==
  \E s \in HeldRefs :
    /\ pcM = 0
    /\ LET m == restore(M, s)
       IN  Commit(m) /\ MementoAdvance(m)
    /\ lastOp' = "restore"
    /\ lastWrite' = [kind |-> "restore",
                     value |-> EditorState_getContent(M, s).ret]
    /\ popLog' = <<>> /\ expectLog' = <<>>
    /\ UNCHANGED <<captured, pushed, nPush, nPop>>
    /\ UNCHANGED stateVars

\* history.push(s), s a snapshot the caller holds
Push ==
  \E s \in HeldRefs :
    /\ pcM = 0
    /\ nPush < MaxPush
    /\ LET m == push(M, s)
       IN  Commit(m) /\ MementoAdvance(m)
    /\ lastOp' = "push"
    /\ pushed' = Append(pushed, s)
    /\ nPush' = nPush + 1
    /\ popLog' = <<>> /\ expectLog' = <<>>
    /\ UNCHANGED <<captured, nPop, lastWrite>>
    /\ UNCHANGED stateVars

\* history.pop()
Pop ==
  /\ pcM = 0
  /\ LET m == pop(M)
     IN  /\ Commit(m) /\ MementoAdvance(m)
         /\ IF pushed = <<>>
              THEN /\ lastOp' = "pop on empty"
                   /\ popLog' = <<>> /\ expectLog' = <<>>
                   /\ UNCHANGED <<pushed, nPop>>
              ELSE /\ lastOp' = "pop"
                   /\ pushed' = Front(pushed)
                   /\ nPop' = nPop + 1
                   /\ popLog' = Append(popLog, m.ret)
                   /\ expectLog' = Append(expectLog, Last(pushed))
  /\ UNCHANGED <<captured, nPush, lastWrite>>
  /\ UNCHANGED stateVars

\* history.push(editor.createState())
Save ==
  /\ MementoMay("save", Undefined)
  /\ pcM = 0 => Len(states) < MaxSnapshots /\ nPush < MaxPush
  /\ LET m1 == createState(M)
         m2 == push(m1, m1.ret)
     IN  /\ Commit(m2) /\ MementoAdvance(m2)
         /\ pushed' = Append(pushed, m1.ret)
  /\ lastOp' = "save"
  /\ captured' = Append(captured, content)
  /\ nPush' = nPush + 1
  /\ popLog' = <<>> /\ expectLog' = <<>>
  /\ UNCHANGED <<nPop, lastWrite>>
  /\ UNCHANGED stateVars

\* editor.restore(history.pop())
Undo ==
  /\ MementoMay("undo", Undefined)
  /\ LET m1 == pop(M)
         m2 == restore(m1, m1.ret)
     IN  /\ Commit(m2) /\ MementoAdvance(m2)
         /\ IF pushed = <<>>
              THEN /\ lastOp' = "undo on empty"
                   /\ popLog' = <<>> /\ expectLog' = <<>>
                   /\ UNCHANGED <<pushed, nPop>>
              ELSE /\ lastOp' = "undo"
                   /\ pushed' = Front(pushed)
                   /\ nPop' = nPop + 1
                   /\ popLog' = Append(popLog, m1.ret)
                   /\ expectLog' = Append(expectLog, Last(pushed))
         /\ lastWrite' = IF m1.ret = Undefined THEN lastWrite
                         ELSE [kind |-> "restore",
                               value |-> EditorState_getContent(M, m1.ret).ret]
  /\ UNCHANGED <<captured, nPush>>
  /\ UNCHANGED stateVars

\* console.log('editor.value=', editor.getContent())
Log ==
  /\ pcM \in MementoLines
  /\ runImpl_Memento(pcM).op = "log"
  /\ LET m1 == getContent(M)
         m2 == Returns([m1 EXCEPT !.console =
                          Append(@, <<Str("editor.value="), m1.ret>>)],
                       Undefined)
     IN  Commit(m2) /\ MementoAdvance(m2)
  /\ lastOp' = "log"
  /\ popLog' = <<>> /\ expectLog' = <<>>
  /\ UNCHANGED <<captured, pushed, nPush, nPop, lastWrite>>
  /\ UNCHANGED stateVars

\* new Editor(), new EditorHistory(), new Canvas(); nothing called yet.
Fresh ==
  /\ content = Undefined
  /\ states = <<>>
  /\ history = <<>>
  /\ tool = Undefined
  /\ calls = <<>>
  /\ console = <<>>
  /\ ret = Undefined
  /\ err = "none"
  /\ lastOp = "new"
  /\ captured = <<>>
  /\ pushed = <<>>
  /\ nPush = 0
  /\ nPop = 0
  /\ popLog = <<>>
  /\ expectLog = <<>>
  /\ lastWrite = [kind |-> "none", value |-> Undefined]
  /\ changed = FALSE
  /\ lastSet = Undefined

InitMemento == Fresh /\ pcM \in {0, 8} /\ pcS = 0

NextMemento ==
  \/ SetContent
  \/ CreateState
  \/ Restore
  \/ Push
  \/ Pop
  \/ Save
  \/ Undo
  \/ Log

SpecMemento == InitMemento /\ [][NextMemento]_vars

TypeOKMemento ==
  /\ content \in Contents \cup {Undefined}
  /\ \A i \in 1..Len(history) : history[i] \in HeldRefs
  /\ err \in {"none", "TypeError"}
  /\ pcM \in MementoLines \cup {0, MementoEnd}

\* ================================================================ State
\* The store the canvas and the tools work on.
K == [tool |-> tool, calls |-> calls, console |-> console,
      ret |-> ret, err |-> err]

Invoked(k, self, handler, line) ==
  Returns([k EXCEPT !.calls = Append(@, [tool |-> self, handler |-> handler]),
                    !.console = Append(@, <<Str(line)>>)],
          Undefined)

\* ------------------------------------------------------------- EraserTool
EraserTool_mouseDown(k, self) ==
  Invoked(k, self, "mouseDown", "eraser tool selected")

EraserTool_mouseUp(k, self) ==
  Invoked(k, self, "mouseUp", "erasing from canvas")

\* ---------------------------------------------------------- SelectionTool
SelectionTool_mouseDown(k, self) ==
  Invoked(k, self, "mouseDown", "selection tool selected")

SelectionTool_mouseUp(k, self) ==
  Invoked(k, self, "mouseUp", "draw box")

\* tool.mouseDown() / tool.mouseUp(): dispatch on the class of the receiver.
Tool_mouseDown(k, self) ==
  CASE self.class = "EraserTool" -> EraserTool_mouseDown(k, self)
    [] self.class = "SelectionTool" -> SelectionTool_mouseDown(k, self)

Tool_mouseUp(k, self) ==
  CASE self.class = "EraserTool" -> EraserTool_mouseUp(k, self)
    [] self.class = "SelectionTool" -> SelectionTool_mouseUp(k, self)

\* ----------------------------------------------------------------- Canvas
setTool_once(k, t) ==
  IF k.tool = Undefined THEN Returns([k EXCEPT !.tool = t], Undefined)
                        ELSE Returns(k, Undefined)
setTool_activate(k, t) ==
  Returns(Tool_mouseDown([k EXCEPT !.tool = t], t), Undefined)
setTool(k, t) == Returns([k EXCEPT !.tool = t], Undefined)

\* this.tool.mouseUp() on a tool field never assigned reads a property of
\* undefined.
mouseUp(k) ==
  IF k.tool = Undefined THEN Throws(k, "TypeError")
                        ELSE Tool_mouseUp(k, k.tool)

mouseDown(k) ==
  IF k.tool = Undefined THEN Throws(k, "TypeError")
                        ELSE Tool_mouseDown(k, k.tool)

\* ---------------------------------------------- StateTestImplementation
\* runImpl, statement by statement.  Line 18 is the end of runImpl.
StateLines == {10, 11, 12, 15, 16, 17}
StateEnd == 18
runImpl_State(l) ==
  CASE l = 10 -> [op |-> "setTool", arg |-> ToolObj("EraserTool", 1),
                  next |-> 11]
    [] l = 11 -> [op |-> "mouseUp", arg |-> Undefined, next |-> 12]
    [] l = 12 -> [op |-> "mouseDown", arg |-> Undefined, next |-> 15]
    [] l = 15 -> [op |-> "setTool", arg |-> ToolObj("SelectionTool", 1),
                  next |-> 16]
    [] l = 16 -> [op |-> "mouseUp", arg |-> Undefined, next |-> 17]
    [] l = 17 -> [op |-> "mouseDown", arg |-> Undefined, next |-> StateEnd]

StateMay(op, arg) ==
  \/ pcS = 0
  \/ /\ pcS \in StateLines
     /\ runImpl_State(pcS).op = op
     /\ runImpl_State(pcS).arg = arg

StateAdvance(k) ==
  pcS' = IF pcS = 0 THEN 0
         ELSE IF k.err # "none" THEN StateEnd
         ELSE runImpl_State(pcS).next

CommitCanvas(k) ==
  /\ tool' = k.tool
  /\ calls' = k.calls
  /\ console' = k.console
  /\ ret' = k.ret
  /\ err' = k.err

\* canvas.setTool(t)
SetTool ==
  \E t \in ToolObjs :
    /\ StateMay("setTool", t)
    /\ LET k == setTool(K, t)
       IN  CommitCanvas(k) /\ StateAdvance(k)
    /\ lastOp' = "setTool"
    /\ lastSet' = t
    /\ UNCHANGED mementoVars

\* canvas.mouseUp()
MouseUp ==
  /\ StateMay("mouseUp", Undefined)
  /\ pcS = 0 => Len(calls) < MaxCalls
  /\ LET k == mouseUp(K)
     IN  CommitCanvas(k) /\ StateAdvance(k)
  /\ lastOp' = "mouseUp"
  /\ UNCHANGED lastSet
  /\ UNCHANGED mementoVars

\* canvas.mouseDown()
MouseDown ==
  /\ StateMay("mouseDown", Undefined)
  /\ pcS = 0 => Len(calls) < MaxCalls
  /\ LET k == mouseDown(K)
     IN  CommitCanvas(k) /\ StateAdvance(k)
  /\ lastOp' = "mouseDown"
  /\ UNCHANGED lastSet
  /\ UNCHANGED mementoVars

InitState == Fresh /\ pcS \in {0, 10} /\ pcM = 0

NextState ==
  \/ SetTool
  \/ MouseUp
  \/ MouseDown

SpecState == InitState /\ [][NextState]_vars

TypeOKState ==
  /\ tool \in ToolObjs \cup {Undefined}
  /\ err \in {"none", "TypeError"}
  /\ pcS \in StateLines \cup {0, StateEnd}

\* ============================================================ properties
RunImplLog == <<Str("editor.value="), Str("Muhammad")>>

\* C1: EditorHistory is a strict LIFO stack: every pop on a non-empty
\* history removes and returns exactly the most recently pushed snapshot
\* among those not yet popped.
C1_StrictLIFO ==
  /\ popLog = expectLog
  /\ history = pushed
  /\ lastOp = "pop" => ret = Last(expectLog)

\* Snapshots capturing "I am", "Hello", "I am" were pushed in that order and
\* three pops in a row returned them in the reverse order, emptying the
\* history.
C1_Witness ==
  /\ lastOp = "pop"
  /\ Len(states) = 2
  /\ states[1].content = Str("Hello")
  /\ states[2].content = Str("I am")
  /\ popLog = <<Ref(2), Ref(1), Ref(2)>>
  /\ history = <<>>

\* C3: the content a snapshot returns is the editor's content at the moment
\* createState made it, whatever setContent, restore, createState, push and
\* pop calls came later.
C3_SnapshotIndependence ==
  /\ Len(states) = Len(captured)
  /\ \A i \in 1..Len(states) :
       i <= Len(captured) => EditorState_getContent(M, Ref(i)).ret = captured[i]

\* setContent("Hello"); s = createState(); setContent("I am") and s still
\* reads "Hello".
C3_Witness ==
  /\ lastOp = "setContent"
  /\ content = Str("I am")
  /\ Len(states) = 1
  /\ captured = <<Str("Hello")>>
  /\ EditorState_getContent(M, Ref(1)).ret = Str("Hello")

\* C4: getContent returns the argument of the last setContent or the content
\* of the snapshot passed to the last restore, whichever came later.
C4_GetContentReflectsLastWrite ==
  lastWrite.kind # "none" => getContent(M).ret = lastWrite.value

\* A restore has just overwritten a different content.
C4_Witness ==
  /\ lastOp = "restore"
  /\ changed
  /\ lastWrite.kind = "restore"
  /\ getContent(M).ret = lastWrite.value
  /\ lastWrite.value \in Contents

\* C5: pop on an empty history signals an explicit empty-history condition.
C5_EmptyPopSignals ==
  lastOp = "pop on empty" => err # "none"

\* C8: pop+restore on a non-empty history leaves the content the editor had
\* at the createState call of the most recent push not yet popped; runImpl
\* completes without error and logs "Muhammad" before and after its restore.
C8_OnlyCapturedRecoverable ==
  /\ lastOp = "undo" =>
       /\ err = "none"
       /\ Last(expectLog) \in HeldRefs
       /\ Last(expectLog).v <= Len(captured)
       /\ getContent(M).ret = captured[Last(expectLog).v]
  /\ pcM # 0 => err = "none"
  /\ pcM = MementoEnd => console = <<RunImplLog, RunImplLog>>

\* An edit made after the only push was reverted by pop+restore.
C8_Witness ==
  /\ lastOp = "undo"
  /\ changed
  /\ Len(captured) = 1
  /\ content = captured[1]
  /\ content \in Contents

\* C9: push never fails, never deduplicates and never drops an entry: the
\* history holds the n - m snapshots pushed and not yet popped, in push
\* order.
C9_PushKeepsEveryEntry ==
  /\ Len(history) = nPush - nPop
  /\ history = pushed
  /\ lastOp \in {"push", "save"} => err = "none"

\* The same snapshot was pushed twice and pop returned it twice.
C9_Witness ==
  /\ lastOp = "pop"
  /\ Len(popLog) = 2
  /\ popLog[1] = popLog[2]
  /\ popLog[1] \in HeldRefs

\* C10: push and pop leave the editor's content and every snapshot
\* unchanged; setContent, createState and restore leave the history
\* unchanged.
C10_Step ==
  /\ lastOp' \in {"push", "pop", "pop on empty"} =>
       /\ content' = content
       /\ \A i \in 1..Len(states) : i <= Len(states') /\ states'[i] = states[i]
       /\ Len(states') = Len(states)
  /\ lastOp' \in {"setContent", "createState", "restore"} =>
       history' = history
C10_EditorAndHistoryIndependent == [][C10_Step]_vars

\* A createState made while the history held a snapshot.
C10_Witness ==
  /\ lastOp = "createState"
  /\ history # <<>>
  /\ content \in Contents

\* C2: a dispatch made after a setTool invokes the corresponding handler of
\* the tool passed to the most recent setTool, and of no other tool; the
\* canvas holds the one tool last set.
C2_Step ==
  /\ tool' = lastSet'
  /\ (lastOp' = "mouseDown" /\ lastSet # Undefined) =>
       calls' = Append(calls, [tool |-> lastSet, handler |-> "mouseDown"])
  /\ (lastOp' = "mouseUp" /\ lastSet # Undefined) =>
       calls' = Append(calls, [tool |-> lastSet, handler |-> "mouseUp"])
  /\ pcS' = StateEnd =>
       console' = << <<Str("erasing from canvas")>>,
                     <<Str("eraser tool selected")>>,
                     <<Str("draw box")>>,
                     <<Str("selection tool selected")>> >>
C2_DispatchToCurrentTool == [][C2_Step]_vars

\* A dispatch reached the tool set after another tool had handled one.
C2_Witness ==
  /\ lastOp = "mouseDown"
  /\ Len(calls) >= 2
  /\ calls[1].tool # Last(calls).tool
  /\ Last(calls) = [tool |-> tool, handler |-> "mouseDown"]

\* C6: a dispatch before any setTool fails with an explicit "no tool set"
\* error, not a null-reference fault.
C6_NoToolFailsFast ==
  (lastOp \in {"mouseUp", "mouseDown"} /\ lastSet = Undefined) =>
    err = "NoToolSetError"

\* C7: setTool alone invokes no handler, neither on the tool set nor on the
\* tool replaced.
C7_Step ==
  lastOp' = "setTool" => calls' = calls /\ console' = console
C7_SetToolInvokesNothing == [][C7_Step]_vars

\* A setTool replaced a tool that had handled a dispatch.
C7_Witness ==
  /\ lastOp = "setTool"
  /\ calls # <<>>
  /\ tool # Last(calls).tool

\* C11: editor.restore(history.pop()) on an empty history does not silently
\* change the editor: pop returns undefined and leaves the history empty,
\* restore throws before it reaches setContent, the content and the
\* snapshots stay as they were, and the history still holds exactly the
\* pushes not yet popped, so later calls work as usual.
C11_Step ==
  lastOp' = "undo on empty" =>
    /\ history = <<>>
    /\ pop(M).ret = Undefined
    /\ pop(M).history = <<>>
    /\ restore(pop(M), pop(M).ret).err = "TypeError"
    /\ err' = "TypeError"
    /\ content' = content
    /\ states' = states
    /\ history' = <<>>
    /\ pushed' = <<>>
    /\ lastWrite' = lastWrite
C11_FailedUndoChangesNothing == [][C11_Step]_vars

\* An undo failed on a history emptied by as many pops as pushes, and the
\* editor kept the content it had.
C11_Witness ==
  /\ lastOp = "undo on empty"
  /\ err = "TypeError"
  /\ ~changed
  /\ content \in Contents
  /\ nPush > 0
  /\ nPop = nPush
  /\ history = <<>>

====
